---- MODULE Spec2Model ----
(***************************************************************************)
(* A model of src/web_recon.py: the WebSecurityRecon pipeline runner.      *)
(* Text is modelled as TLA+ strings, a text file as the sequence of its    *)
(* lines (without the line terminator), the workspace as the set of files  *)
(* present plus their contents, and every external tool as an opaque       *)
(* process whose launch, exit status and writes are chosen by the          *)
(* environment.                                                            *)
(***************************************************************************)
EXTENDS Integers, Sequences, FiniteSets, TLC

\* ------------------------------------------------------------------------
\* Bounds of the model
\* ------------------------------------------------------------------------

\* Longest source file (in lines) read by the JS extraction unit runs.
MaxLines == 2

\* ------------------------------------------------------------------------
\* Text primitives (Python str operations used by the source)
\* ------------------------------------------------------------------------

\* s[a-1:b] of Python: the characters a..b of s, clipped to s
Slice(s, a, b) ==
    LET hi == IF b > Len(s) THEN Len(s) ELSE b
    IN  IF a > hi THEN "" ELSE SubSeq(s, a, hi)

Char(s, i) == SubSeq(s, i, i)

\* The characters of the model's texts, in code-point order.
AsciiOrder == "\t #%&+,-./0123456789:;=?@ABCDEFGHIJKLMNOPQRSTUVWXYZ[]_abcdefghijklmnopqrstuvwxyz~"

Ord(c) == CHOOSE i \in 1..Len(AsciiOrder) : Char(AsciiOrder, i) = c

IsSpace(c) == c = " " \/ c = "\t"

\* sub in s
Contains(sub, s) ==
    \E i \in 1..(Len(s) - Len(sub) + 1) : SubSeq(s, i, i + Len(sub) - 1) = sub

RECURSIVE lstrip(_)
lstrip(s) ==
    IF s # "" /\ IsSpace(Char(s, 1)) THEN lstrip(Slice(s, 2, Len(s))) ELSE s

RECURSIVE rstrip(_)
rstrip(s) ==
    IF s # "" /\ IsSpace(Char(s, Len(s))) THEN rstrip(Slice(s, 1, Len(s) - 1)) ELSE s

\* str.strip()
strip(s) == rstrip(lstrip(s))

\* Index of the first character of s from i on that is one of stops, or Len(s) + 1.
RECURSIVE FindStop(_, _, _)
FindStop(s, i, stops) ==
    IF i > Len(s) \/ Contains(Char(s, i), stops) THEN i ELSE FindStop(s, i + 1, stops)

\* str.split()[0] of a string that holds a non-blank character
FirstToken(s) ==
    LET t == lstrip(s) IN Slice(t, 1, FindStop(t, 1, " \t") - 1)

LowerOf == "abcdefghijklmnopqrstuvwxyz"
UpperOf == "ABCDEFGHIJKLMNOPQRSTUVWXYZ"

IsAlpha(c) == Contains(c, LowerOf) \/ Contains(c, UpperOf)

LowerChar(c) ==
    IF Contains(c, UpperOf)
    THEN Char(LowerOf, CHOOSE i \in 1..26 : Char(UpperOf, i) = c)
    ELSE c

\* str.lower()
RECURSIVE lower(_)
lower(s) == IF s = "" THEN "" ELSE LowerChar(Char(s, 1)) \o lower(Slice(s, 2, Len(s)))

\* Code-point order on strings, as sorted() compares str values.
RECURSIVE StrLess(_, _)
StrLess(a, b) ==
    IF a = "" THEN b # ""
    ELSE IF b = "" THEN FALSE
    ELSE IF Char(a, 1) = Char(b, 1)
         THEN StrLess(Slice(a, 2, Len(a)), Slice(b, 2, Len(b)))
         ELSE Ord(Char(a, 1)) < Ord(Char(b, 1))

\* sorted(S) for a set of strings
RECURSIVE sorted(_)
sorted(S) ==
    IF S = {} THEN <<>>
    ELSE LET m == CHOOSE x \in S : \A y \in S \ {x} : StrLess(x, y)
         IN <<m>> \o sorted(S \ {m})

\* ------------------------------------------------------------------------
\* urllib.parse.urlparse, as far as run_directory_bruteforce uses it:
\* the scheme and the network location of the first token
\* ------------------------------------------------------------------------

SchemeChars == LowerOf \o UpperOf \o "0123456789+-."

AllIn(s, chars) == \A i \in 1..Len(s) : Contains(Char(s, i), chars)

urlparse(url) ==
    LET i         == FindStop(url, 1, ":")
        hasScheme == /\ i > 1
                     /\ i <= Len(url)
                     /\ IsAlpha(Char(url, 1))
                     /\ AllIn(Slice(url, 1, i - 1), SchemeChars)
        scheme    == IF hasScheme THEN lower(Slice(url, 1, i - 1)) ELSE ""
        rest      == IF hasScheme THEN Slice(url, i + 1, Len(url)) ELSE url
        hasLoc    == Slice(rest, 1, 2) = "//"
        netloc    == IF hasLoc THEN Slice(rest, 3, FindStop(rest, 3, "/?#") - 1) ELSE ""
        open      == Contains("[", netloc)
        close     == Contains("]", netloc)
    IN  [raised |-> open # close, scheme |-> scheme, netloc |-> netloc]

\* base_url of run_directory_bruteforce
base_url(parsed) == parsed.scheme \o "://" \o parsed.netloc \o "/FUZZ"

\* ------------------------------------------------------------------------
\* The workspace: WebSecurityRecon.__init__
\* ------------------------------------------------------------------------

subdomain_file          == "subdomains.txt"
alive_file              == "alive.txt"
wayback_file            == "waybackurls.txt"
nuclei_file             == "nuclei_results.json"
katana_file             == "katana_crawl.txt"
js_files                == "js_files.txt"
gau_file                == "gau_urls.txt"
subdomain_takeover_file == "subdomain_takeover.txt"
ffuf_file               == "ffuf_results.json"
wordlist                == "common_dirs.txt"

Files ==
    { subdomain_file, alive_file, wayback_file, nuclei_file, katana_file,
      js_files, gau_file, subdomain_takeover_file, ffuf_file, wordlist }

\* The files whose lines the runner itself reads or writes.
TextFiles == { alive_file, wayback_file, katana_file, js_files, wordlist }

\* The tools dictionary of check_dependencies, in its iteration order.
tools ==
    << "subfinder", "httpx", "waybackurls", "nuclei", "katana", "gau", "ffuf", "subjack" >>

\* The steps list of start(), by function name.
steps ==
    << "run_subfinder", "run_httpx", "run_waybackurls", "run_gau", "run_katana_crawl",
       "extract_js_files", "run_nuclei_scan", "run_subdomain_takeover",
       "run_directory_bruteforce" >>

\* The common_dirs list of run_directory_bruteforce.
common_dirs_sorted ==
    << ".env", ".git", "admin", "api", "assets", "config", "css",
       "dashboard", "img", "js", "login", "uploads" >>

common_dirs ==
    << "admin", "api", "login", "uploads", "img", "js", "css",
       "config", ".git", ".env", "dashboard", "assets" >>

VARIABLES
    pc,        \* where start() is: "check_dependencies", "steps", "done" (returned after
               \* the completion banner), "returned" (the early return), "crashed" (an
               \* exception left start())
    depIdx,    \* check_dependencies: index in tools of the next tool to probe
    missing,   \* check_dependencies: the list `missing`, as tool names
    cur,       \* start(): index in steps of `func`, 10 once the loop is over
    phase,     \* "loop": func not called yet; "body": inside func;
               \* "wait": blocked in subprocess.run
    running,   \* the external processes now running
    status,    \* per step: "pending", "running", "succeeded", "failed", "raised"
    calls,     \* the step functions start() has called, in call order
    invoked,   \* the commands the steps have passed to subprocess.run, in order
    present,   \* the files that exist in the workspace
    text,      \* the lines of each text file (<< >> when absent)
    json,      \* what ffuf_results.json holds
    found,     \* the count run_directory_bruteforce printed, -1 if none
    banner     \* whether the completion banner with the workspace path is printed

vars ==
    << pc, depIdx, missing, cur, phase, running, status, calls, invoked,
       present, text, json, found, banner >>

\* ffuf_results.json: kind is "absent", "invalid" (not JSON), "array" (JSON, not an
\* object) or "object"; results is the number of entries under "results", -1 when
\* the key is missing and -2 when its value has no length.
NoJson == [kind |-> "absent", results |-> -1]

JsonDocs ==
    { [kind |-> "invalid", results |-> -1], [kind |-> "array", results |-> -1] }
    \cup { [kind |-> "object", results |-> n] : n \in {-2, -1, 0, 2} }

\* What httpx may leave in alive.txt in the pipeline runs.
AliveTexts ==
    { << >>, << "https://example.com [200] Title", "https://api.example.com [403]" >> }

\* What waybackurls and katana may write in the pipeline runs.
UrlTexts ==
    { << "https://example.com/index.html" >>,
      << "https://example.com/b.js ", "https://example.com/a.js" >> }

StaleUrls == << "https://old.example.com/js/old" >>

\* The workspaces start() may find: fresh, or kept from an earlier run.
KeptFiles ==
    { {}, {subdomain_file}, {katana_file, wayback_file, js_files}, Files }

StaleAlive == << "https://old.example.com/login [200]" >>

TextOf(kept) ==
    [f \in TextFiles |->
        IF f \notin kept THEN << >>
        ELSE IF f = alive_file THEN StaleAlive
        ELSE IF f = wordlist THEN << "stale" >>
        ELSE StaleUrls]

Init ==
    /\ pc = "check_dependencies"
    /\ depIdx = 1
    /\ missing = << >>
    /\ cur = 1
    /\ phase = "loop"
    /\ running = {}
    /\ status = [k \in 1..9 |-> "pending"]
    /\ calls = << >>
    /\ invoked = << >>
    /\ \E kept \in KeptFiles :
         /\ present = kept
         /\ text = TextOf(kept)
         /\ json = IF ffuf_file \in kept THEN [kind |-> "object", results |-> 1] ELSE NoJson
    /\ found = -1
    /\ banner = FALSE

\* ------------------------------------------------------------------------
\* check_tool_installed / check_dependencies
\* ------------------------------------------------------------------------

StepVars == << cur, status, calls, invoked, present, text, json, found, banner >>

\* check_tool_installed returned `installed` for tools[depIdx]:
\* the loop body of check_dependencies.
ToolChecked(installed) ==
    /\ missing' = IF installed THEN missing ELSE Append(missing, tools[depIdx])
    /\ depIdx' = depIdx + 1
    /\ phase' = "loop"
    /\ pc' = pc

\* subprocess.run([tool, "-h"]) is entered: the process starts, or the launch
\* raises FileNotFoundError (caught: not installed) or another OSError such as
\* PermissionError (not caught: it leaves check_dependencies and start()).
check_tool_installed ==
    /\ pc = "check_dependencies"
    /\ depIdx <= Len(tools)
    /\ phase = "loop"
    /\ \E launch \in {"started", "FileNotFoundError", "OSError"} :
         CASE launch = "started" ->
                /\ running' = {tools[depIdx]}
                /\ phase' = "wait"
                /\ UNCHANGED << pc, depIdx, missing >>
           [] launch = "FileNotFoundError" ->
                /\ ToolChecked(FALSE)
                /\ UNCHANGED running
           [] launch = "OSError" ->
                /\ pc' = "crashed"
                /\ UNCHANGED << depIdx, missing, phase, running >>
    /\ UNCHANGED StepVars

\* The probed tool exits: check=True turns a non-zero status into
\* CalledProcessError, which is caught.
check_tool_installed_exit ==
    /\ pc = "check_dependencies"
    /\ phase = "wait"
    /\ \E code \in {0, 1} : ToolChecked(code = 0)
    /\ running' = {}
    /\ UNCHANGED StepVars

\* start(): `if not self.check_dependencies(): return`
start_after_check_nogate(ok) == "steps"

start_after_check(ok) == IF ok THEN "steps" ELSE "returned"

\* check_dependencies returns `not missing`, and start() acts on it.
check_dependencies ==
    /\ pc = "check_dependencies"
    /\ depIdx = Len(tools) + 1
    /\ phase = "loop"
    /\ pc' = start_after_check(missing = << >>)
    /\ UNCHANGED << depIdx, missing, phase, running >>
    /\ UNCHANGED StepVars

\* ------------------------------------------------------------------------
\* start(): the step loop
\* ------------------------------------------------------------------------

DepVars == << depIdx, missing >>

\* `success = func()`: the loop calls the next step function.
call_step ==
    /\ pc = "steps"
    /\ phase = "loop"
    /\ cur <= Len(steps)
    /\ status' = [status EXCEPT ![cur] = "running"]
    /\ calls' = Append(calls, steps[cur])
    /\ phase' = "body"
    /\ UNCHANGED << pc, cur, running, invoked, present, text, json, found, banner >>
    /\ UNCHANGED DepVars

\* The loop goes on to the next function whatever `success` is.
next_func_break(k, success) == IF success THEN k + 1 ELSE Len(steps) + 1

next_func_retry(k, success) == IF success THEN k + 1 ELSE k

next_func(k, success) == k + 1

\* Step k returns `success` to the loop.
Return(k, success) ==
    /\ status' = [status EXCEPT ![k] = IF success THEN "succeeded" ELSE "failed"]
    /\ cur' = next_func(k, success)
    /\ phase' = "loop"
    /\ pc' = pc

\* An exception leaves step k: start() has no handler, so it leaves start() too.
Raise(k) ==
    /\ status' = [status EXCEPT ![k] = "raised"]
    /\ pc' = "crashed"
    /\ UNCHANGED << cur, phase >>

\* The loop is over: the completion banner, then start() returns.
finish ==
    /\ pc = "steps"
    /\ phase = "loop"
    /\ cur = Len(steps) + 1
    /\ banner' = TRUE
    /\ pc' = "done"
    /\ UNCHANGED << cur, phase, running, status, calls, invoked, present, text, json, found >>
    /\ UNCHANGED DepVars

\* ------------------------------------------------------------------------
\* The steps
\* ------------------------------------------------------------------------

\* Path.exists()
exists_always(f) == TRUE

exists_after_success(f) == f \in present /\ (f = "subdomains.txt" => status[1] = "succeeded")

exists(f) == f \in present

\* The file whose absence makes step k return False before its tool is run
\* ("" for a step without such a check).
precondition_swapped(k) ==
    CASE k \in {2, 8}    -> alive_file
      [] k \in {5, 7, 9} -> subdomain_file
      [] OTHER           -> ""

precondition(k) ==
    CASE k \in {2, 8}    -> subdomain_file
      [] k \in {5, 7, 9} -> alive_file
      [] OTHER           -> ""

Cmd(tool, u) == [tool |-> tool, u |-> u]

InBody(k) == pc = "steps" /\ cur = k /\ phase = "body"

InWait(k) == pc = "steps" /\ cur = k /\ phase = "wait"

Launch_nowait(k, cmd) ==
    /\ invoked' = Append(invoked, cmd)
    /\ running' = running \cup {cmd.tool}
    /\ Return(k, TRUE)

\* try: subprocess.run(cmd, check=True) ... except Exception: return False
\* up to the point where the process runs: a launch error is caught.
Launch(k, cmd) ==
    /\ invoked' = Append(invoked, cmd)
    /\ \E started \in BOOLEAN :
         IF started
         THEN /\ running' = {cmd.tool}
              /\ phase' = "wait"
              /\ UNCHANGED << pc, cur, status >>
         ELSE /\ Return(k, FALSE)
              /\ UNCHANGED running

\* A step of the shape of run_subfinder: the optional existence check, then
\* the tool.
ToolStep(k, tool) ==
    /\ InBody(k)
    /\ IF precondition(k) # "" /\ ~exists(precondition(k))
       THEN /\ Return(k, FALSE)
            /\ UNCHANGED << running, invoked >>
       ELSE Launch(k, Cmd(tool, ""))
    /\ UNCHANGED << calls, present, text, json, found, banner >>
    /\ UNCHANGED DepVars

\* The tool of step k exits with `code`, having written its -o file or not;
\* check=True makes a non-zero status an exception, which the step catches.
ToolExit(k, tool, out, contents) ==
    /\ InWait(k)
    /\ running = {tool}
    /\ running' = {}
    /\ \E code \in {0, 1} : Return(k, code = 0)
    /\ \/ UNCHANGED << present, text >>
       \/ /\ present' = present \cup {out}
          /\ IF out \in TextFiles
             THEN \E lines \in contents : text' = [text EXCEPT ![out] = lines]
             ELSE UNCHANGED text
    /\ UNCHANGED << calls, invoked, json, found, banner >>
    /\ UNCHANGED DepVars

run_subfinder == ToolStep(1, "subfinder")

run_subfinder_exit == ToolExit(1, "subfinder", subdomain_file, {})

run_httpx == ToolStep(2, "httpx")

run_httpx_exit == ToolExit(2, "httpx", alive_file, AliveTexts)

open_a(lines) == lines

\* open(self.wayback_file, 'w'): mode 'w' creates the file or empties it.
open_w(lines) == << >>

\* open(self.wayback_file, 'w') creates or truncates the file before the tool
\* is launched; an error of open() is caught like one of the tool.
run_waybackurls ==
    /\ InBody(3)
    /\ \/ /\ Return(3, FALSE)
          /\ UNCHANGED << running, invoked, present, text >>
       \/ /\ present' = present \cup {wayback_file}
          /\ text' = [text EXCEPT ![wayback_file] = open_w(text[wayback_file])]
          /\ Launch(3, Cmd("waybackurls", ""))
    /\ UNCHANGED << calls, json, found, banner >>
    /\ UNCHANGED DepVars

\* What the tool printed follows what the opened file held, when it exits.
run_waybackurls_exit ==
    /\ InWait(3)
    /\ running = {"waybackurls"}
    /\ running' = {}
    /\ \E code \in {0, 1} : Return(3, code = 0)
    /\ \E lines \in UrlTexts \cup {<< >>} :
         text' = [text EXCEPT ![wayback_file] = text[wayback_file] \o lines]
    /\ UNCHANGED << calls, invoked, present, json, found, banner >>
    /\ UNCHANGED DepVars

run_gau == ToolStep(4, "gau")

run_gau_exit == ToolExit(4, "gau", gau_file, {})

run_katana_crawl == ToolStep(5, "katana")

run_katana_crawl_exit == ToolExit(5, "katana", katana_file, UrlTexts)

run_nuclei_scan == ToolStep(7, "nuclei")

run_nuclei_scan_exit == ToolExit(7, "nuclei", nuclei_file, {})

run_subdomain_takeover == ToolStep(8, "subjack")

run_subdomain_takeover_exit == ToolExit(8, "subjack", subdomain_takeover_file, {})

\* ------------------------------------------------------------------------
\* extract_js_files
\* ------------------------------------------------------------------------

\* '.js' in line or '/js/' in line
is_js_line_suffix(line) ==
    Len(line) >= 3 /\ Slice(line, Len(line) - 2, Len(line)) = ".js"

is_js_line(line) == Contains(".js", line) \/ Contains("/js/", line)

\* The loop over one source file: js_urls.add(line.strip()) for each marked line.
collect(lines) ==
    { strip(lines[i]) : i \in { j \in 1..Len(lines) : is_js_line(lines[j]) } }

\* js_urls once both files are read
js_urls ==
    (IF exists(katana_file) THEN collect(text[katana_file]) ELSE {})
    \cup (IF exists(wayback_file) THEN collect(text[wayback_file]) ELSE {})

\* for url in sorted(js_urls): f.write(url + '\n')
js_output(urls) == sorted(urls)

\* The whole step. Neither the reads nor the write are inside a try: an
\* OSError of open() or a decoding error of the read leaves the function.
extract_js_files ==
    /\ InBody(6)
    /\ \/ \* reading katana_crawl.txt or waybackurls.txt raises
          /\ exists(katana_file) \/ exists(wayback_file)
          /\ Raise(6)
          /\ UNCHANGED << present, text >>
       \/ \* both reads go through and something was collected
          /\ js_urls # {}
          /\ \/ \* open(self.js_files, 'w') raises
                /\ Raise(6)
                /\ UNCHANGED << present, text >>
             \/ /\ present' = present \cup {js_files}
                /\ text' = [text EXCEPT ![js_files] = js_output(js_urls)]
                /\ Return(6, TRUE)
       \/ \* both reads go through and nothing was collected
          /\ js_urls = {}
          /\ Return(6, FALSE)
          /\ UNCHANGED << present, text >>
    /\ UNCHANGED << running, calls, invoked, json, found, banner >>
    /\ UNCHANGED DepVars

\* ------------------------------------------------------------------------
\* run_directory_bruteforce
\* ------------------------------------------------------------------------

\* f.readline() of a file just opened
readline(lines) == IF lines = << >> THEN "" ELSE lines[1]

\* first_url = f.readline().strip()
first_url_last(lines) == IF lines = << >> THEN "" ELSE strip(lines[Len(lines)])

first_url(lines) == strip(readline(lines))

\* The -u argument: urlparse of the first token, scheme and netloc kept.
fuzz_target_whole(url) == FirstToken(url) \o "/FUZZ"

fuzz_target(url) == base_url(urlparse(FirstToken(url)))

\* From the call to the launch of ffuf. The wordlist is written before the
\* try block; everything after it is inside.
run_directory_bruteforce ==
    /\ InBody(9)
    /\ IF ~exists(precondition(9))
       THEN /\ Return(9, FALSE)
            /\ UNCHANGED << running, invoked, present, text >>
       ELSE \/ \* open(wordlist, 'w') raises, outside the try
               /\ Raise(9)
               /\ UNCHANGED << running, invoked, present, text >>
            \/ /\ present' = present \cup {wordlist}
               /\ text' = [text EXCEPT ![wordlist] = common_dirs]
               /\ \/ \* open(self.alive_file) or the read raises: caught
                     /\ Return(9, FALSE)
                     /\ UNCHANGED << running, invoked >>
                  \/ \* `if not first_url`
                     /\ first_url(text[alive_file]) = ""
                     /\ Return(9, FALSE)
                     /\ UNCHANGED << running, invoked >>
                  \/ \* urlparse raises ValueError: caught
                     /\ first_url(text[alive_file]) # ""
                     /\ urlparse(FirstToken(first_url(text[alive_file]))).raised
                     /\ Return(9, FALSE)
                     /\ UNCHANGED << running, invoked >>
                  \/ /\ first_url(text[alive_file]) # ""
                     /\ ~urlparse(FirstToken(first_url(text[alive_file]))).raised
                     /\ Launch(9, Cmd("ffuf", fuzz_target(first_url(text[alive_file]))))
    /\ UNCHANGED << calls, json, found, banner >>
    /\ UNCHANGED DepVars

\* len(results.get("results", [])) of a parsed object
count_results(doc) == IF doc.results = -1 THEN 0 ELSE doc.results

\* What follows subprocess.run(cmd, check=True) once ffuf has exited.
ffuf_result_ok_unchecked(doc, io_error) ==
    \/ doc.kind = "absent"
    \/ doc.kind = "object" /\ doc.results # -2 /\ ~io_error

ffuf_result_ok_anyjson(doc, io_error) ==
    doc.kind \in {"array", "object"} /\ ~io_error

ffuf_result_ok(doc, io_error) ==
    /\ doc.kind = "object"
    /\ doc.results # -2
    /\ ~io_error

run_directory_bruteforce_exit ==
    /\ InWait(9)
    /\ running = {"ffuf"}
    /\ running' = {}
    /\ \E code \in {0, 1}, doc \in {json} \cup JsonDocs, io_error \in BOOLEAN :
         /\ json' = doc
         /\ present' = IF doc.kind = "absent" THEN present ELSE present \cup {ffuf_file}
         /\ IF code = 0 /\ ffuf_result_ok(doc, io_error)
            THEN /\ found' = count_results(doc)
                 /\ Return(9, TRUE)
            ELSE /\ found' = found
                 /\ Return(9, FALSE)
    /\ UNCHANGED << calls, invoked, text, banner >>
    /\ UNCHANGED DepVars

\* ------------------------------------------------------------------------
\* The program
\* ------------------------------------------------------------------------

Next ==
    \/ check_tool_installed
    \/ check_tool_installed_exit
    \/ check_dependencies
    \/ call_step
    \/ run_subfinder
    \/ run_subfinder_exit
    \/ run_httpx
    \/ run_httpx_exit
    \/ run_waybackurls
    \/ run_waybackurls_exit
    \/ run_gau
    \/ run_gau_exit
    \/ run_katana_crawl
    \/ run_katana_crawl_exit
    \/ extract_js_files
    \/ run_nuclei_scan
    \/ run_nuclei_scan_exit
    \/ run_subdomain_takeover
    \/ run_subdomain_takeover_exit
    \/ run_directory_bruteforce
    \/ run_directory_bruteforce_exit
    \/ finish

Spec == Init /\ [][Next]_vars

\* The runs that start from an empty workspace.
InitFresh == Init /\ present = {}

SpecFresh == InitFresh /\ [][Next]_vars

\* ------------------------------------------------------------------------
\* Unit runs: one step entered with the earlier steps behind it, over a
\* wider range of file contents than the pipeline runs enumerate
\* ------------------------------------------------------------------------

\* All texts of at most n lines drawn from pool.
TextsUpTo(pool, n) == UNION { [1..m -> pool] : m \in 0..n }

\* Lines that katana and waybackurls may have left for extract_js_files.
JsLines == { "b/a.js", " b/a.js\t", "B/js/x", "b/index.html" }

\* start() has just called extract_js_files: subfinder, httpx, gau and katana
\* exited 0, and run_waybackurls succeeded unless it could not open its file.
InitJs ==
    /\ pc = "steps"
    /\ depIdx = Len(tools) + 1
    /\ missing = << >>
    /\ cur = 6
    /\ phase = "body"
    /\ running = {}
    /\ calls = SubSeq(steps, 1, 6)
    /\ json = NoJson
    /\ found = -1
    /\ banner = FALSE
    /\ \E kept \in SUBSET {katana_file, wayback_file, js_files},
          k \in TextsUpTo(JsLines, MaxLines), w \in TextsUpTo(JsLines, MaxLines) :
         /\ present = {subdomain_file, alive_file, gau_file} \cup kept
         /\ text = [f \in TextFiles |->
                      IF f = alive_file THEN StaleAlive
                      ELSE IF f \notin kept THEN << >>
                      ELSE IF f = katana_file THEN k
                      ELSE IF f = wayback_file THEN w
                      ELSE StaleUrls]
         /\ (katana_file \notin kept => k = << >>)
         /\ (wayback_file \notin kept => w = << >>)
         /\ status = [i \in 1..9 |->
                        IF i = 6 THEN "running"
                        ELSE IF i > 6 THEN "pending"
                        ELSE IF i = 3 /\ wayback_file \notin kept THEN "failed"
                        ELSE "succeeded"]
         /\ invoked = << Cmd("subfinder", ""), Cmd("httpx", "") >>
                      \o (IF wayback_file \in kept THEN << Cmd("waybackurls", "") >> ELSE << >>)
                      \o << Cmd("gau", ""), Cmd("katana", "") >>

NextJs == extract_js_files

SpecJs == InitJs /\ [][NextJs]_vars

\* First lines of alive.txt, put together from the parts of an httpx line.
Schemes == { "http", "https" }
Hosts   == { "example.com", "a.example.com:8443" }
Paths   == { "", "/", "/app/login?next=/x", "?q=1" }
Metas   == { "", " [200] Title", "\t[301] [Moved]" }

AliveLine(scheme, host, path, meta) == scheme \o "://" \o host \o path \o meta

UrlLines ==
    { AliveLine(s, h, p, m) : s \in Schemes, h \in Hosts, p \in Paths, m \in Metas }

\* First lines that hold no URL with a scheme and a host, or none at all.
OtherLines ==
    { "", " \t", "example.com", "example.com/login [200]", "https:///login",
      "//example.com/x", "http://[::1" }

AliveFiles ==
    { << >> }
    \cup { << l >> \o rest : l \in UrlLines \cup OtherLines,
                             rest \in TextsUpTo({ "https://example.com [200]" }, MaxLines - 1) }

\* start() has just called run_directory_bruteforce: every tool before it
\* exited 0, httpx having left alive.txt (or not), and no JS line was found.
InitFfuf ==
    /\ pc = "steps"
    /\ depIdx = Len(tools) + 1
    /\ missing = << >>
    /\ cur = 9
    /\ phase = "body"
    /\ running = {}
    /\ calls = steps
    /\ status = [i \in 1..9 |->
                   IF i = 9 THEN "running" ELSE IF i = 6 THEN "failed" ELSE "succeeded"]
    /\ found = -1
    /\ banner = FALSE
    /\ \E kept \in SUBSET {alive_file, wordlist, ffuf_file}, alive \in AliveFiles :
         /\ present = {subdomain_file, wayback_file, gau_file} \cup kept
         /\ (alive_file \notin kept => alive = << >>)
         /\ text = [f \in TextFiles |->
                      IF f \notin kept THEN << >>
                      ELSE IF f = alive_file THEN alive
                      ELSE << "stale" >>]
         /\ json = IF ffuf_file \in kept THEN [kind |-> "object", results |-> 1] ELSE NoJson
         /\ invoked = << Cmd("subfinder", ""), Cmd("httpx", ""), Cmd("waybackurls", ""),
                         Cmd("gau", "") >>
                      \o (IF alive_file \in kept
                          THEN << Cmd("katana", ""), Cmd("nuclei", "") >> ELSE << >>)
                      \o << Cmd("subjack", "") >>

NextFfuf == run_directory_bruteforce \/ run_directory_bruteforce_exit

SpecFfuf == InitFfuf /\ [][NextFfuf]_vars

\* ------------------------------------------------------------------------
\* Properties
\* ------------------------------------------------------------------------

Range(seq) == { seq[i] : i \in 1..Len(seq) }

\* A step passed a command for `tool` to subprocess.run.
Invoked(tool) == \E i \in 1..Len(invoked) : invoked[i].tool = tool

Returned(k) == status[k] \in {"succeeded", "failed"}

\* start() is over, one way or another.
Ended == pc \in {"done", "returned", "crashed"}

C2_ContinueOnError ==
    /\ Len(calls) <= Len(steps)
    /\ calls = SubSeq(steps, 1, Len(calls))
    /\ \A k \in 1..9 : Returned(k) => k <= Len(calls) /\ cur > k
    /\ pc = "steps" => Len(calls) = (IF phase = "loop" THEN cur - 1 ELSE cur)
    /\ pc = "done" => calls = steps /\ \A k \in 1..9 : Returned(k)

C2_Witness ==
    /\ pc = "done"
    /\ calls = steps
    /\ \A k \in 1..9 : status[k] = "failed"

\* C3 as claimed, taken in the runs where check_dependencies found every tool:
\* a run of start() that is over has printed the completion banner.
C3_AlwaysBanner ==
    (Ended /\ depIdx = Len(tools) + 1 /\ missing = << >>) => banner

\* The precondition file the specification declares for step k.
DeclaredInput(k) == IF k \in {2, 8} THEN "subdomains.txt" ELSE "alive.txt"

\* C4: a step with a declared precondition file that is entered while the file is
\* absent returns failure in that very call, passes nothing to subprocess.run and
\* leaves no process running.
C4_PreconditionGuards ==
    [][ \A k \in {2, 5, 7, 8, 9} :
          (InBody(k) /\ DeclaredInput(k) \notin present) =>
             /\ status'[k] = "failed"
             /\ invoked' = invoked
             /\ running' = {} ]_vars

C4_Witness ==
    /\ "subdomains.txt" \notin present
    /\ "alive.txt" \notin present
    /\ \A k \in {2, 5, 7, 8, 9} : status[k] = "failed"
    /\ \A t \in {"httpx", "katana", "nuclei", "subjack", "ffuf"} : ~Invoked(t)
    /\ Invoked("gau")

\* C5 as claimed: whenever step 1 reported failure, neither httpx nor subjack is
\* ever invoked.
C5_FailedSubfinderBlocks ==
    status[1] = "failed" => ~Invoked("httpx") /\ ~Invoked("subjack")

\* C5 as amended: after a failed step 1, steps 2 and 8 fail at their precondition
\* check, invoking nothing, when subdomains.txt is absent (not kept from an
\* earlier run and not written by the failing subfinder); when the file exists
\* they pass the check and invoke their tools, although step 1 failed.
C5_BlocksOnlyWhenFileAbsent ==
    status[1] = "failed" =>
       /\ subdomain_file \notin present =>
             /\ ~Invoked("httpx") /\ ~Invoked("subjack")
             /\ status[2] # "succeeded" /\ status[8] # "succeeded"
       /\ subdomain_file \in present =>
             /\ Returned(2) => Invoked("httpx")
             /\ Returned(8) => Invoked("subjack")

C5_Witness ==
    /\ status[1] = "failed"
    /\ Invoked("subfinder")
    /\ subdomain_file \notin present
    /\ status[2] = "failed"
    /\ status[8] = "failed"
    /\ ~Invoked("httpx") /\ ~Invoked("subjack")

\* C6 as claimed: no exception ever leaves a step.
C6_ErrorsContained == \A k \in 1..9 : status[k] # "raised"

\* The lines of the two source files, as they stand in the workspace, that hold
\* the substring .js or /js/.
HasMarker(line) ==
    \E i \in 1..Len(line) :
       \/ Slice(line, i, i + 2) = ".js"
       \/ Slice(line, i, i + 3) = "/js/"

MarkedLines ==
    { l \in (IF katana_file \in present THEN Range(text[katana_file]) ELSE {})
            \cup (IF wayback_file \in present THEN Range(text[wayback_file]) ELSE {}) :
        HasMarker(l) }

\* Strictly increasing in code-point order: sorted, and no entry twice.
StrictlySorted(seq) ==
    \A i \in 1..Len(seq), j \in 1..Len(seq) : i < j => StrLess(seq[i], seq[j])

\* What a call of extract_js_files that returns must do for the set `want`.
JsStepWrites(want) ==
    InBody(6) /\ status'[6] # "raised" =>
       IF want # {}
       THEN /\ status'[6] = "succeeded"
            /\ js_files \in present'
            /\ Range(text'[js_files]) = want
            /\ StrictlySorted(text'[js_files])
            /\ \A f \in TextFiles \ {js_files} : text'[f] = text[f]
       ELSE /\ status'[6] = "failed"
            /\ present' = present
            /\ text' = text

\* C7 as claimed: the entries written are the marked lines themselves.
C7_WritesMarkedLines == [][ JsStepWrites(MarkedLines) ]_vars

\* C7 as amended: the collected set holds, for every line of the two files that
\* contains .js or /js/, that line with its leading and trailing whitespace
\* removed, and nothing else (so two lines differing only in such whitespace give
\* one entry); non-empty, it is written to js_files.txt sorted, without
\* duplicates, and the step returns success; empty, the step returns failure and
\* writes nothing.
C7_WritesStrippedMarkedLines ==
    [][ JsStepWrites({ strip(l) : l \in MarkedLines }) ]_vars

C7_Witness ==
    /\ status[6] = "succeeded"
    /\ text[katana_file] = << "B/js/x", " b/a.js\t" >>
    /\ text[wayback_file] = << "b/a.js", "b/index.html" >>
    /\ text[js_files] = << "B/js/x", "b/a.js" >>

\* A line with no character other than whitespace.
Blank(line) == \A i \in 1..Len(line) : Slice(line, i, i) \in {" ", "\t"}

\* C8: run_directory_bruteforce entered with alive.txt present but empty, or with
\* a blank first line whatever follows it, passes nothing to subprocess.run,
\* starts no process and never returns success: it returns failure (the one other
\* way out being the wordlist write raising before alive.txt is even opened).
C8_BlankAliveFails ==
    [][ ( /\ InBody(9)
          /\ alive_file \in present
          /\ (text[alive_file] = << >> \/ Blank(text[alive_file][1])) ) =>
             /\ invoked' = invoked
             /\ running' = {}
             /\ status'[9] \in {"failed", "raised"}
             /\ (wordlist \in present' /\ text'[wordlist] = common_dirs
                   => status'[9] = "failed") ]_vars

C8_Witness ==
    /\ status[9] = "failed"
    /\ Len(text[alive_file]) = 2
    /\ text[alive_file][1] = " \t"
    /\ ~Blank(text[alive_file][2])
    /\ ~Invoked("ffuf")
    /\ text[wordlist] = common_dirs

\* First lines whose first token has no scheme, no host, or neither.
NoSchemeOrHost ==
    { "example.com", "example.com/login [200]", "https:///login", "//example.com/x" }

\* C9 as claimed: with such a first line in alive.txt, ffuf is never invoked and
\* the step does not succeed.
C9_UnparsableFails ==
    (alive_file \in present /\ text[alive_file] # << >>
       /\ text[alive_file][1] \in NoSchemeOrHost) =>
          ~Invoked("ffuf") /\ status[9] # "succeeded"

\* C10: when the first line of alive.txt is scheme://host followed by any path,
\* query and metadata, every ffuf command the step issues has -u equal to
\* scheme://host/FUZZ (host being the network location, port included).
C10_FuzzTarget ==
    \A sc \in Schemes, h \in Hosts, pa \in Paths, m \in Metas :
       (alive_file \in present /\ text[alive_file] # << >>
          /\ text[alive_file][1] = AliveLine(sc, h, pa, m)) =>
             \A i \in 1..Len(invoked) :
                invoked[i].tool = "ffuf" => invoked[i].u = sc \o "://" \o h \o "/FUZZ"

C10_Witness ==
    /\ text[alive_file] # << >>
    /\ text[alive_file][1] = "https://example.com [200] Title"
    /\ invoked[Len(invoked)] = [tool |-> "ffuf", u |-> "https://example.com/FUZZ"]
    /\ status[9] = "succeeded"

\* The file each step is meant to produce.
Output(k) ==
    CASE k = 1 -> "subdomains.txt"
      [] k = 2 -> "alive.txt"
      [] k = 3 -> "waybackurls.txt"
      [] k = 4 -> "gau_urls.txt"
      [] k = 5 -> "katana_crawl.txt"
      [] k = 6 -> "js_files.txt"
      [] k = 7 -> "nuclei_results.json"
      [] k = 8 -> "subdomain_takeover.txt"
      [] k = 9 -> "ffuf_results.json"

TenFiles == { Output(k) : k \in 1..9 } \cup { "common_dirs.txt" }

AllSucceeded == pc = "done" /\ \A k \in 1..9 : status[k] = "succeeded"

\* C11 as claimed: no step has returned success while its output file is absent,
\* and after nine successes the workspace holds exactly the ten files.
C11_ExactlyTenFiles ==
    /\ \A k \in 1..9 : status[k] = "succeeded" => Output(k) \in present
    /\ AllSucceeded => present = TenFiles

\* C11 as amended: from an empty workspace, a step that returned success has its
\* input file present (steps 2, 5, 7, 8, 9) and, for steps 3, 6 and 9 only, its
\* output file present (step 9 the wordlist too); so after nine successes
\* subdomains.txt, alive.txt, waybackurls.txt, js_files.txt, ffuf_results.json and
\* common_dirs.txt exist and nothing outside the ten files does, while the outputs
\* of gau, katana, nuclei and subjack exist only if those tools wrote them.
C11_FilesAfterSuccess ==
    /\ present \subseteq TenFiles
    /\ \A k \in {2, 5, 7, 8, 9} : status[k] = "succeeded" => DeclaredInput(k) \in present
    /\ \A k \in {3, 6, 9} : status[k] = "succeeded" => Output(k) \in present
    /\ status[9] = "succeeded" => "common_dirs.txt" \in present
    /\ AllSucceeded =>
          { "subdomains.txt", "alive.txt", "waybackurls.txt", "js_files.txt",
            "ffuf_results.json", "common_dirs.txt" } \subseteq present

C11_Witness ==
    /\ AllSucceeded
    /\ present = { "subdomains.txt", "alive.txt", "waybackurls.txt", "js_files.txt",
                   "ffuf_results.json", "common_dirs.txt" }

\* C12: when ffuf has exited, run_directory_bruteforce returns a boolean (nothing
\* escapes it); it returns success only with ffuf_results.json present and
\* holding a JSON object, and the count it then prints is the number of entries
\* under "results", 0 when the key is missing; with the file absent, not JSON, or
\* JSON that is not an object, it returns failure and prints no count.
C12_ResultFile ==
    [][ InWait(9) =>
          /\ status'[9] \in {"succeeded", "failed"}
          /\ pc' = "steps"
          /\ status'[9] = "succeeded" =>
                /\ "ffuf_results.json" \in present'
                /\ json'.kind = "object"
                /\ found' = (IF json'.results = -1 THEN 0 ELSE json'.results)
                /\ found' >= 0
          /\ json'.kind \in {"absent", "invalid", "array"} =>
                /\ status'[9] = "failed"
                /\ found' = found ]_vars

C12_Witness ==
    /\ status[9] = "succeeded"
    /\ json = [kind |-> "object", results |-> -1]
    /\ found = 0
    /\ Invoked("ffuf")

\* C13: check_tool_installed answers False for every way the probe can fail to
\* launch, it never raises, and check_dependencies goes on to probe the
\* remaining tools: the run is never ended by an error while the eight tools
\* are being probed.
C13_CheckerNeverRaises ==
    pc = "crashed" => depIdx = Len(tools) + 1

\* C14: when alive.txt is absent, run_directory_bruteforce fails and leaves every
\* file, the wordlist included, as it was; when alive.txt exists and the step
\* goes on to return a result, common_dirs.txt exists and holds exactly the
\* twelve entries admin, api, login, uploads, img, js, css, config, .git, .env,
\* dashboard, assets in that order, whatever it held before and whether the
\* result is success or failure; the wait for ffuf does not touch it again.
TwelveEntries ==
    << "admin", "api", "login", "uploads", "img", "js", "css",
       "config", ".git", ".env", "dashboard", "assets" >>

C14_WordlistRewritten ==
    [][ /\ (InBody(9) /\ "alive.txt" \notin present) =>
              /\ present' = present
              /\ text' = text
              /\ status'[9] = "failed"
        /\ (InBody(9) /\ "alive.txt" \in present /\ status'[9] # "raised") =>
              /\ "common_dirs.txt" \in present'
              /\ text'["common_dirs.txt"] = TwelveEntries
        /\ InWait(9) =>
              /\ "common_dirs.txt" \in present'
              /\ text'["common_dirs.txt"] = TwelveEntries
              /\ text["common_dirs.txt"] = TwelveEntries ]_vars

C14_Witness ==
    /\ status[9] = "failed"
    /\ ~Invoked("ffuf")
    /\ "alive.txt" \in present
    /\ "common_dirs.txt" \in present
    /\ text["common_dirs.txt"] = TwelveEntries

\* C15: execution is strictly sequential. At most one external process is
\* running, and only while the runner waits for it: the probed tool during the
\* dependency check, the current step's tool during the pipeline. A step has
\* started only if every earlier step has returned its result, at most one
\* step is running, and no step has started and no step tool has been launched
\* before all eight tools were probed.
ToolOf(k) ==
    CASE k = 1 -> "subfinder" [] k = 2 -> "httpx" [] k = 3 -> "waybackurls"
      [] k = 4 -> "gau" [] k = 5 -> "katana" [] k = 6 -> ""
      [] k = 7 -> "nuclei" [] k = 8 -> "subjack" [] k = 9 -> "ffuf"

Started(k) == status[k] # "pending"

C15_Sequential ==
    /\ Cardinality(running) <= 1
    /\ running # {} => phase = "wait"
    /\ (pc = "check_dependencies" /\ running # {}) =>
          /\ depIdx <= 8
          /\ running = {tools[depIdx]}
    /\ (pc # "check_dependencies" /\ running # {}) =>
          /\ pc = "steps"
          /\ cur \in 1..9
          /\ status[cur] = "running"
          /\ running = {ToolOf(cur)}
    /\ \A k \in 1..9 : status[k] = "running" => (pc = "steps" /\ cur = k)
    /\ \A k \in 1..8 : Started(k + 1) => Returned(k)
    /\ \A k \in 1..9 : (Started(k) \/ Invoked(ToolOf(k))) =>
          /\ pc # "check_dependencies"
          /\ depIdx = 9
    /\ \A k \in 1..9 : Invoked(ToolOf(k)) => Started(k)

C15_Witness ==
    /\ pc = "steps"
    /\ running = {"nuclei"}
    /\ \A k \in 1..6 : Returned(k)
    /\ status[7] = "running"
    /\ status[8] = "pending"
    /\ status[9] = "pending"

\* C16: each step is a state machine without retry. A pending step can only
\* become running, a running step can only become succeeded or failed (unless
\* an error leaves the step, which ends the run with the step still entered),
\* and a succeeded or failed step never changes again. No step function is
\* called twice and no tool is launched twice in a run, and in a run that
\* reaches its end every step has been called once and has succeeded or failed.
NoRepeat(seq) == \A i, j \in DOMAIN seq : i # j => seq[i] # seq[j]

LaunchedTools == [i \in DOMAIN invoked |-> invoked[i].tool]

C16_StepTransitions ==
    \A k \in 1..9 :
       /\ status[k] = "pending" => status'[k] \in {"pending", "running"}
       /\ status[k] = "running" =>
             \/ status'[k] \in {"running", "succeeded", "failed"}
             \/ pc' = "crashed"
       /\ status[k] \in {"succeeded", "failed", "raised"} => status'[k] = status[k]
       /\ (status[k] = "pending" /\ status'[k] = "running") =>
             (~Invoked(ToolOf(k)) /\ calls' = Append(calls, steps[k]))

C16_NoRetry ==
    [][ /\ C16_StepTransitions
        /\ invoked' # invoked =>
              (\E t \in Range(tools) \ Range(LaunchedTools) :
                  LaunchedTools' = Append(LaunchedTools, t))
        /\ calls' # calls => NoRepeat(calls')
        /\ pc' = "done" => (calls' = steps /\ \A k \in 1..9 : status'[k] \in {"succeeded", "failed"}) ]_vars

C16_Witness ==
    /\ pc = "done"
    /\ status[1] = "failed"
    /\ status[2] = "succeeded"
    /\ status[4] = "failed"
    /\ NoRepeat(LaunchedTools)
    /\ Len(invoked) = 8

\* C17: what a step does is a function of the workspace files at its start and
\* of its own tool's outcome, in every reachable state, that is whatever the
\* earlier steps returned. A step with a declared input launches its tool
\* exactly when that file exists (so httpx is launched after a failed subfinder
\* step when subdomains.txt exists); steps 1 and 4 always launch theirs; step 3
\* does unless its output file cannot be opened; step 6 returns success exactly
\* when the two URL files hold a marked line; and once its tool runs, a step
\* can still return either result, by the tool's exit alone.
FilesDecide(k) ==
    CASE k \in {1, 4} ->
            invoked' = Append(invoked, Cmd(ToolOf(k), ""))
      [] k \in {2, 5, 7, 8} ->
            IF DeclaredInput(k) \in present
            THEN invoked' = Append(invoked, Cmd(ToolOf(k), ""))
            ELSE invoked' = invoked /\ status'[k] = "failed"
      [] k = 3 ->
            \/ invoked' = Append(invoked, Cmd(ToolOf(k), ""))
            \/ invoked' = invoked /\ status'[k] = "failed" /\ text' = text
      [] k = 6 ->
            \/ status'[k] = "raised"
            \/ status'[k] = (IF js_urls # {} THEN "succeeded" ELSE "failed")
      [] k = 9 ->
            \/ status'[k] = "raised"
            \/ IF /\ "alive.txt" \in present
                  /\ first_url(text["alive.txt"]) # ""
                  /\ ~urlparse(FirstToken(first_url(text["alive.txt"]))).raised
               THEN \/ invoked' = Append(invoked, Cmd("ffuf", fuzz_target(first_url(text["alive.txt"]))))
                    \/ invoked' = invoked /\ status'[k] = "failed"
               ELSE invoked' = invoked /\ status'[k] = "failed"

EitherResult(k) ==
    /\ ENABLED (Next /\ status'[k] = "succeeded")
    /\ ENABLED (Next /\ status'[k] = "failed")

C17_FilesDecide ==
    [][ \A k \in 1..9 :
          /\ InBody(k) => FilesDecide(k)
          /\ (InBody(k) /\ k \in {2, 5, 7, 8} /\ DeclaredInput(k) \in present) =>
                ENABLED (Next /\ running' = {ToolOf(k)})
          /\ InWait(k) => EitherResult(k) ]_vars

C17_Witness ==
    /\ status[1] = "failed"
    /\ "subdomains.txt" \in present
    /\ Invoked("httpx")
    /\ status[2] = "succeeded"

\* C18: run_waybackurls opens waybackurls.txt for writing before the launch. If
\* the open fails the step fails and no file changes; otherwise the file exists
\* and is empty from the launch attempt on, whether or not the process starts,
\* so at the exit it holds only what this invocation printed. Nothing later
\* changes or removes it, and extract_js_files never reads a line kept from an
\* earlier run in it once waybackurls was launched, whatever step 3 returned.
C18_TruncatedBeforeLaunch ==
    [][ /\ InBody(3) =>
              \/ /\ invoked' = Append(invoked, Cmd("waybackurls", ""))
                 /\ "waybackurls.txt" \in present'
                 /\ text'["waybackurls.txt"] = << >>
              \/ /\ invoked' = invoked
                 /\ status'[3] = "failed"
                 /\ present' = present
                 /\ text' = text
        /\ InWait(3) =>
              /\ "waybackurls.txt" \in present'
              /\ text["waybackurls.txt"] = << >>
        /\ (Invoked("waybackurls") /\ ~InWait(3)) =>
              /\ "waybackurls.txt" \in present'
              /\ text'["waybackurls.txt"] = text["waybackurls.txt"]
        /\ (InBody(6) /\ Invoked("waybackurls")) =>
              Range(text["waybackurls.txt"]) \cap Range(StaleUrls) = {} ]_vars

C18_Witness ==
    /\ status[3] = "failed"
    /\ Invoked("waybackurls")
    /\ "waybackurls.txt" \in present
    /\ text["waybackurls.txt"] = << >>
    /\ status[6] = "failed"
    /\ text["js_files.txt"] = StaleUrls

====
